---- MODULE Spec2Model ----
(***************************************************************************)
(* Model of the orders data layer: the Order table (orders/models.py), the *)
(* four lookups of OrderQuerySet (orders/querysets.py) and their           *)
(* OrderManager wrappers (orders/managers.py).                             *)
(*                                                                         *)
(* Rows are written the way the ORM writes them for this model:            *)
(* Order.objects.create(...) and instance.save().  Neither runs the field  *)
(* validators (full_clean is never called by this code), so `choices` on   *)
(* status restricts nothing on write.  auto_now_add stamps created_at on   *)
(* insert only, auto_now stamps updated_at on every save.                  *)
(*                                                                         *)
(* Timestamps are integers (clock ticks), totals are integers (hundredths  *)
(* of the currency unit, DecimalField(decimal_places=2)).  email and items *)
(* are left out of the row: no lookup reads them and nothing derives a     *)
(* value from them.                                                        *)
(***************************************************************************)
EXTENDS Integers, Sequences, FiniteSets

\* ---------------------------------------------------------------- bounds
\* the last instant the clock reaches
MaxTime == 1

\* ------------------------------------------------------- program constants
\* models.py:5-12, class OrderStatus(models.TextChoices)
OrderStatus ==
    {"pending", "paid", "processing", "shipped", "delivered", "cancelled", "failed"}

\* models.py:20, default=OrderStatus.PENDING
StatusDefault == "pending"

\* ------------------------------------------------------------ input sets
\* status values a caller passes: members of the enumeration and one string
\* that is not a member
StatusArgs == {"pending", "paid", "bogus"}
\* totals a caller passes, in hundredths: -5.00, 10.00
TotalArgs == {-500, 1000}
UserIds == {"u1", "u2"}
PaymentIds == {"p1", "p2"}
\* the values uuid.uuid4 can return
Uuids == {"id1", "id2"}
Times == 0..MaxTime

VARIABLES
    orders,   \* the rows of table 'orders', in insertion order
    now,      \* the clock timezone.now() reads
    last      \* the most recent call and what it returned to its caller

vars == <<orders, now, last>>

NoCall == [op |-> "none", arg |-> <<>>, error |-> "none", rows |-> <<>>]

\* --------------------------------------------------------------- helpers
Range(s) == {s[i] : i \in 1..Len(s)}

\* QuerySet.filter(<field>=value): the rows whose column equals the value,
\* here kept in table order
RECURSIVE filter(_, _, _)
filter(rows, field, value) ==
    IF rows = <<>> THEN <<>>
    ELSE LET rest == filter(Tail(rows), field, value)
         IN IF Head(rows)[field] = value THEN <<Head(rows)>> \o rest ELSE rest

\* what a call hands back: the rows of the evaluated queryset, or the
\* exception it raised
Returned(rows) == [error |-> "none", rows |-> rows]
Raised(exc) == [error |-> exc, rows |-> <<>>]

\* OrderManager.get_queryset: a queryset over every row of the table
get_queryset == orders

\* get_by_user_id written with get() in place of filter(): DoesNotExist when
\* no row matches
get_by_user_id_with_get(qs, user_id) ==
    IF filter(qs, "user_id", user_id) = <<>> THEN Raised("DoesNotExist")
    ELSE Returned(filter(qs, "user_id", user_id))

\* OrderQuerySet.get_by_user_id
OrderQuerySet_get_by_user_id(qs, user_id) ==
    Returned(filter(qs, "user_id", user_id))

\* get_by_payment_id filtering on the column of the method above it
get_by_payment_id_on_user_id(qs, payment_id) ==
    Returned(filter(qs, "user_id", payment_id))

\* OrderQuerySet.get_by_payment_id
OrderQuerySet_get_by_payment_id(qs, payment_id) ==
    Returned(filter(qs, "payment_id", payment_id))

\* get_by_status rejecting an argument that is no member of OrderStatus
get_by_status_validating(qs, status) ==
    IF status \in OrderStatus THEN Returned(filter(qs, "status", status))
    ELSE Raised("ValidationError")

\* OrderQuerySet.get_by_status: the argument goes to filter() as it is
OrderQuerySet_get_by_status(qs, status) ==
    Returned(filter(qs, "status", status))

\* filter(created_at__lte=value): the rows created at or before the value
RECURSIVE filter_lte(_, _, _)
filter_lte(rows, field, value) ==
    IF rows = <<>> THEN <<>>
    ELSE LET rest == filter_lte(Tail(rows), field, value)
         IN IF Head(rows)[field] <= value THEN <<Head(rows)>> \o rest ELSE rest

\* get_by_created_at as a range lookup
get_by_created_at_range(qs, created_at) ==
    Returned(filter_lte(qs, "created_at", created_at))

\* OrderQuerySet.get_by_created_at
OrderQuerySet_get_by_created_at(qs, created_at) ==
    Returned(filter(qs, "created_at", created_at))

\* the manager's get_by_user_id delegating to the wrong queryset method
manager_get_by_user_id_wrong_method(user_id) ==
    OrderQuerySet_get_by_payment_id(get_queryset, user_id)

\* OrderManager.get_by_user_id
OrderManager_get_by_user_id(user_id) ==
    OrderQuerySet_get_by_user_id(get_queryset, user_id)

\* OrderManager.get_by_payment_id
OrderManager_get_by_payment_id(payment_id) ==
    OrderQuerySet_get_by_payment_id(get_queryset, payment_id)

\* the manager's get_by_status delegating to the wrong queryset method
manager_get_by_status_wrong_method(status) ==
    OrderQuerySet_get_by_user_id(get_queryset, status)

\* OrderManager.get_by_status
OrderManager_get_by_status(status) ==
    OrderQuerySet_get_by_status(get_queryset, status)

\* OrderManager.get_by_created_at
OrderManager_get_by_created_at(created_at) ==
    OrderQuerySet_get_by_created_at(get_queryset, created_at)

\* the record of a call: its name, its argument and what it handed back
Call(op, arg, res) == [op |-> op, arg |-> arg, error |-> res.error, rows |-> res.rows]

\* an insert that stamps created_at from the later reading of the clock
NewOrder_created_last(id, kw, t1, t2) ==
    [id |-> id,
     status |-> IF "status" \in DOMAIN kw THEN kw.status ELSE StatusDefault,
     total |-> kw.total,
     user_id |-> kw.user_id,
     payment_id |-> kw.payment_id,
     created_at |-> t2,
     updated_at |-> t1]

\* The row an insert writes (class Order): id from uuid.uuid4, status from
\* the caller or the default, created_at from auto_now_add and updated_at from
\* auto_now, each its own reading of the clock (t1 first, then t2).
NewOrder(id, kw, t1, t2) ==
    [id |-> id,
     status |-> IF "status" \in DOMAIN kw THEN kw.status ELSE StatusDefault,
     total |-> kw.total,
     user_id |-> kw.user_id,
     payment_id |-> kw.payment_id,
     created_at |-> t1,
     updated_at |-> t2]

\* The row an instance.save() of an existing order writes: the assigned
\* fields, created_at as loaded, updated_at from auto_now.
SavedOrder(row, fields, t) ==
    [f \in DOMAIN row |->
        IF f = "updated_at" THEN t
        ELSE IF f \in DOMAIN fields THEN fields[f]
        ELSE row[f]]

\* keyword arguments of Order.objects.create: status is optional (passing the
\* default explicitly writes the same row as leaving it out)
CreateArgs ==
    [total : TotalArgs, user_id : UserIds, payment_id : PaymentIds]
    \cup [status : StatusArgs \ {StatusDefault}, total : TotalArgs,
          user_id : UserIds, payment_id : PaymentIds]

\* the field external order processing assigns before save()
UpdateArgs == [status : StatusArgs] \cup [total : TotalArgs]

Init ==
    /\ orders = <<>>
    /\ now = 0
    /\ last = NoCall

\* the clock advances
Tick ==
    /\ now < MaxTime
    /\ now' = now + 1
    /\ UNCHANGED <<orders, last>>

\* the primary keys in use
UsedIds == {orders[i].id : i \in 1..Len(orders)}

\* Order.objects.create(**kw): insert one row under a primary key no stored
\* row has (uuid4 values do not repeat); nothing is validated.  The clock may
\* advance between the two readings the insert takes.
Create ==
    \E kw \in CreateArgs, id \in Uuids \ UsedIds, d \in 0..1 :
        /\ now + d <= MaxTime
        /\ LET row == NewOrder(id, kw, now, now + d)
           IN /\ orders' = Append(orders, row)
              /\ last' = Call("create", kw, Returned(<<row>>))
        /\ now' = now + d

\* order.<field> = value ...; order.save() on a stored order
Update ==
    \E i \in 1..Len(orders), fields \in UpdateArgs :
        LET row == SavedOrder(orders[i], fields, now)
        IN /\ orders' = [orders EXCEPT ![i] = row]
           /\ last' = Call("update", fields, Returned(<<row>>))
           /\ UNCHANGED now

\* Order.objects.get_by_user_id(u), evaluated
GetByUserId ==
    \E u \in UserIds :
        /\ last' = Call("get_by_user_id", u, OrderManager_get_by_user_id(u))
        /\ UNCHANGED <<orders, now>>

\* Order.objects.get_by_payment_id(p), evaluated
GetByPaymentId ==
    \E p \in PaymentIds :
        /\ last' = Call("get_by_payment_id", p, OrderManager_get_by_payment_id(p))
        /\ UNCHANGED <<orders, now>>

\* Order.objects.get_by_status(s), evaluated
GetByStatus ==
    \E s \in StatusArgs :
        /\ last' = Call("get_by_status", s, OrderManager_get_by_status(s))
        /\ UNCHANGED <<orders, now>>

\* Order.objects.get_by_created_at(t), evaluated
GetByCreatedAt ==
    \E t \in Times :
        /\ last' = Call("get_by_created_at", t, OrderManager_get_by_created_at(t))
        /\ UNCHANGED <<orders, now>>

Next ==
    \/ Tick
    \/ Create
    \/ Update
    \/ GetByUserId
    \/ GetByPaymentId
    \/ GetByStatus
    \/ GetByCreatedAt

Spec == Init /\ [][Next]_vars

\* ------------------------------------------------------------ properties
Stored == Range(orders)

\* the row stored under a primary key
RowOf(id) == CHOOSE o \in Stored : o.id = id

\* C1: get_by_status(s), s one of the seven labels, returns exactly the stored
\* orders whose status is s: each of them once, and no other order.
C1_GetByStatusExact ==
    (last.op = "get_by_status" /\ last.arg \in OrderStatus) =>
        /\ last.error = "none"
        /\ Range(last.rows) = {o \in Stored : o.status = last.arg}
        /\ Len(last.rows) = Cardinality(Range(last.rows))

\* Two orders are stored, one of them paid, and get_by_status("paid") has
\* returned that one.
C1_Witness ==
    /\ last.op = "get_by_status"
    /\ last.arg = "paid"
    /\ Len(orders) = 2
    /\ Len(last.rows) = 1

\* C2 as stated: get_by_status with an argument that is none of the seven
\* labels fails with ValidationError.
C2_Original ==
    (last.op = "get_by_status" /\ last.arg \notin OrderStatus) =>
        last.error = "ValidationError"

\* C2 as amended: get_by_status with an argument that is none of the seven
\* labels raises nothing and returns exactly the stored orders whose status
\* equals the argument, the empty sequence when there is none.
C2_GetByStatusUnchecked ==
    (last.op = "get_by_status" /\ last.arg \notin OrderStatus) =>
        /\ last.error = "none"
        /\ Range(last.rows) = {o \in Stored : o.status = last.arg}
        /\ ((\A o \in Stored : o.status # last.arg) => last.rows = <<>>)

\* Orders are stored, none with status "bogus", and get_by_status("bogus")
\* has returned the empty sequence.
C2_Witness ==
    /\ last.op = "get_by_status"
    /\ last.arg = "bogus"
    /\ orders # <<>>
    /\ \A o \in Stored : o.status \in OrderStatus
    /\ last.rows = <<>>
    /\ last.error = "none"

\* C3: the status of every stored order is one of the seven labels.
C3_StatusInEnumeration == \A o \in Stored : o.status \in OrderStatus

\* C4: an update that sets status to a value outside the enumeration fails
\* with ValidationError and leaves every stored order as it was.
C4_BadStatusUpdateRejected ==
    [][(Update /\ "status" \in DOMAIN last'.arg /\ last'.arg.status \notin OrderStatus)
          => (last'.error = "ValidationError" /\ orders' = orders)]_vars

\* C5: get_by_user_id(u) returns exactly the stored orders whose user_id is u,
\* all of them when several share it.
C5_GetByUserIdExact ==
    last.op = "get_by_user_id" =>
        /\ last.error = "none"
        /\ Range(last.rows) = {o \in Stored : o.user_id = last.arg}
        /\ Len(last.rows) = Cardinality(Range(last.rows))

\* Two orders of user u1 with different payments are stored and
\* get_by_user_id("u1") has returned both.
C5_Witness ==
    /\ last.op = "get_by_user_id"
    /\ last.arg = "u1"
    /\ Len(last.rows) = 2
    /\ last.rows[1].payment_id # last.rows[2].payment_id

\* C6: get_by_payment_id(p) returns exactly the stored orders whose payment_id
\* is p; an order of the same user with another payment_id is left out.
C6_GetByPaymentIdExact ==
    last.op = "get_by_payment_id" =>
        /\ last.error = "none"
        /\ Range(last.rows) = {o \in Stored : o.payment_id = last.arg}
        /\ Len(last.rows) = Cardinality(Range(last.rows))

\* A = (u1, p1) and B = (u1, p2) are stored and get_by_payment_id("p1") has
\* returned A alone.
C6_Witness ==
    /\ last.op = "get_by_payment_id"
    /\ last.arg = "p1"
    /\ Len(orders) = 2
    /\ \A o \in Stored : o.user_id = "u1"
    /\ \E o \in Stored : o.payment_id = "p2"
    /\ Len(last.rows) = 1

\* C7: get_by_created_at(t) returns exactly the stored orders created at t,
\* none created at another instant, and no step changes the created_at of a
\* stored order, so an update never moves an order in or out of the result.
C7_GetByCreatedAtExact ==
    /\ [](last.op = "get_by_created_at" =>
            /\ last.error = "none"
            /\ Range(last.rows) = {o \in Stored : o.created_at = last.arg}
            /\ Len(last.rows) = Cardinality(Range(last.rows)))
    /\ [][\A i \in 1..Len(orders) : orders'[i].created_at = orders[i].created_at]_vars

\* Two orders created at neighbouring instants are stored, the earlier one has
\* been updated after its creation, and get_by_created_at of the earlier
\* instant has returned it alone.
C7_Witness ==
    /\ last.op = "get_by_created_at"
    /\ Len(orders) = 2
    /\ orders[1].created_at = last.arg
    /\ orders[2].created_at = last.arg + 1
    /\ orders[1].updated_at > orders[1].created_at
    /\ last.rows = <<orders[1]>>

\* the column a lookup compares
Column(op) ==
    CASE op = "get_by_user_id" -> "user_id"
      [] op = "get_by_payment_id" -> "payment_id"
      [] op = "get_by_status" -> "status"
      [] op = "get_by_created_at" -> "created_at"

Lookups == {"get_by_user_id", "get_by_payment_id", "get_by_status", "get_by_created_at"}

\* C8: each of the four lookups returns the empty sequence and raises nothing
\* when no stored order matches its argument, the empty table included.
C8_NoMatchIsEmpty ==
    (last.op \in Lookups /\ \A o \in Stored : o[Column(last.op)] # last.arg) =>
        (last.error = "none" /\ last.rows = <<>>)

\* Orders of user u2 only are stored and get_by_user_id("u1") has returned the
\* empty sequence.
C8_Witness ==
    /\ last.op = "get_by_user_id"
    /\ last.arg = "u1"
    /\ orders # <<>>
    /\ \A o \in Stored : o.user_id = "u2"
    /\ last.rows = <<>>
    /\ last.error = "none"

\* C9: every stored order has created_at <= updated_at; no step changes a
\* stored order's created_at or moves its updated_at back.
C9_CreatedNotAfterUpdated ==
    /\ [](\A o \in Stored : o.created_at <= o.updated_at)
    /\ [][\A i \in 1..Len(orders) :
            /\ orders'[i].created_at = orders[i].created_at
            /\ orders'[i].updated_at >= orders[i].updated_at]_vars

\* An order has been updated at an instant after its creation.
C9_Witness ==
    /\ last.op = "update"
    /\ RowOf(last.rows[1].id).updated_at > RowOf(last.rows[1].id).created_at

\* C10: the total of every stored order is non-negative, and a create or an
\* update that supplies a negative total fails with ValidationError.
C10_TotalNonNegative ==
    /\ \A o \in Stored : o.total >= 0
    /\ (last.op \in {"create", "update"} /\ "total" \in DOMAIN last.arg /\ last.arg.total < 0)
          => last.error = "ValidationError"
====
